---- MODULE Spec2Model ----
(***************************************************************************)
(* Peekable (futures-util/src/stream/peek.rs): a Fuse-wrapped stream with  *)
(* a one-slot cache, its `peek` method and its Stream::poll_next.          *)
(* FuturesOrdered as exercised by futures/tests/futures_ordered.rs.        *)
(***************************************************************************)
EXTENDS Integers, Sequences, FiniteSets

\* ---------------------------------------------------------------- bounds
MaxScript == 4    \* longest scripted behaviour of the underlying stream
MaxCalls  == 7    \* calls to peek / poll_next made by the consumer
MaxItem   == 3    \* item values are 1..MaxItem
MaxFutures == 3   \* futures submitted to a FuturesOrdered
MaxFoPolls == 5   \* polls of a FuturesOrdered
MaxChans   == 3   \* oneshot channels created by a test

Items == 1..MaxItem

\* ------------------------------------------------- Option<T> and Poll<T>
NoneOpt    == <<"None">>
Some(v)    == <<"Some", v>>
Pending    == <<"Pending">>
Ready(o)   == <<"Ready", o>>
is_some(o) == o[1] = "Some"
unwrap(o)  == o[2]

\* Option::as_ref on the `peeked` field: the reference names the slot it
\* points into and the value read through it.
Ref(v)     == [slot |-> "peeked", val |-> v]
as_ref(o)  == IF is_some(o) THEN Some(Ref(unwrap(o))) ELSE NoneOpt

\* --------------------------------------------------- the wrapped stream
\* The wrapped stream St is the environment: `script` is what its successive
\* polls return, `polls` counts the polls made so far.  Polled beyond its
\* script it reports end.
PollResults == {Pending, Ready(NoneOpt)} \cup {Ready(Some(v)) : v \in Items}
Scripts     == UNION {[1..n -> PollResults] : n \in 0..MaxScript}

St_poll_next(st) ==
    [self |-> [st EXCEPT !.polls = @ + 1],
     ret  |-> IF st.polls < Len(st.script) THEN st.script[st.polls + 1]
              ELSE Ready(NoneOpt)]

\* ----------------------------------------------------------------- Fuse
fuse(st) == [stream |-> st, done |-> FALSE]

Fuse_poll_next(f) ==
    IF f.done
    THEN [self |-> f, ret |-> Ready(NoneOpt)]
    ELSE LET r == St_poll_next(f.stream) IN
         IF r.ret = Pending
         THEN [self |-> [f EXCEPT !.stream = r.self], ret |-> Pending]
         ELSE [self |-> [stream |-> r.self, done |-> (r.ret = Ready(NoneOpt))],
               ret  |-> r.ret]

\* ------------------------------------------------------------- Peekable
new(st) == [stream |-> fuse(st), peeked |-> NoneOpt]

\* Variants of peek with one slip each.
\* The polled item is handed out without being stored in `peeked`.
peek_forgets_item(self) ==
    IF is_some(self.peeked)
    THEN [self |-> self, ret |-> Ready(as_ref(self.peeked))]
    ELSE LET r == Fuse_poll_next(self.stream) IN
         IF r.ret = Pending
         THEN [self |-> [self EXCEPT !.stream = r.self], ret |-> Pending]
         ELSE IF r.ret = Ready(NoneOpt)
         THEN [self |-> [self EXCEPT !.stream = r.self], ret |-> Ready(NoneOpt)]
         ELSE [self |-> [self EXCEPT !.stream = r.self],
               ret  |-> Ready(as_ref(r.ret[2]))]

\* The early return on a filled cache is missing.
peek_always_polls(self) ==
    LET r == Fuse_poll_next(self.stream) IN
    IF r.ret = Pending
    THEN [self |-> [self EXCEPT !.stream = r.self], ret |-> Pending]
    ELSE IF r.ret = Ready(NoneOpt)
    THEN [self |-> [self EXCEPT !.stream = r.self], ret |-> Ready(NoneOpt)]
    ELSE [self |-> [stream |-> r.self, peeked |-> r.ret[2]],
          ret  |-> Ready(as_ref(r.ret[2]))]

\* The wrapped stream is polled directly, not through Fuse.
peek_bypasses_fuse(self) ==
    IF is_some(self.peeked)
    THEN [self |-> self, ret |-> Ready(as_ref(self.peeked))]
    ELSE LET r == St_poll_next(self.stream.stream) IN
         IF r.ret = Pending \/ r.ret = Ready(NoneOpt)
         THEN [self |-> [self EXCEPT !.stream.stream = r.self], ret |-> r.ret]
         ELSE [self |-> [stream |-> [self.stream EXCEPT !.stream = r.self],
                         peeked |-> r.ret[2]],
               ret  |-> Ready(as_ref(r.ret[2]))]

\* A not-ready result is answered by polling once more.
peek_retries_pending(self) ==
    IF is_some(self.peeked)
    THEN [self |-> self, ret |-> Ready(as_ref(self.peeked))]
    ELSE LET r1 == Fuse_poll_next(self.stream)
             r  == IF r1.ret = Pending THEN Fuse_poll_next(r1.self) ELSE r1 IN
         IF r.ret = Pending
         THEN [self |-> [self EXCEPT !.stream = r.self], ret |-> Pending]
         ELSE IF r.ret = Ready(NoneOpt)
         THEN [self |-> [self EXCEPT !.stream = r.self], ret |-> Ready(NoneOpt)]
         ELSE [self |-> [stream |-> r.self, peeked |-> r.ret[2]],
               ret  |-> Ready(as_ref(r.ret[2]))]

\* Peekable::peek
peek(self) ==
    IF is_some(self.peeked)
    THEN [self |-> self, ret |-> Ready(as_ref(self.peeked))]
    ELSE LET r == Fuse_poll_next(self.stream) IN
         IF r.ret = Pending
         THEN [self |-> [self EXCEPT !.stream = r.self], ret |-> Pending]
         ELSE IF r.ret = Ready(NoneOpt)
         THEN [self |-> [self EXCEPT !.stream = r.self], ret |-> Ready(NoneOpt)]
         ELSE [self |-> [stream |-> r.self, peeked |-> r.ret[2]],
               ret  |-> Ready(as_ref(r.ret[2]))]

\* Variants of poll_next with one slip each.
\* The cache is not looked at.
poll_next_skips_cache(self) ==
    LET r == Fuse_poll_next(self.stream) IN
    [self |-> [self EXCEPT !.stream = r.self], ret |-> r.ret]

\* The cached item is copied out, not taken.
poll_next_keeps_cache(self) ==
    IF is_some(self.peeked)
    THEN [self |-> self, ret |-> Ready(Some(unwrap(self.peeked)))]
    ELSE LET r == Fuse_poll_next(self.stream) IN
         [self |-> [self EXCEPT !.stream = r.self], ret |-> r.ret]

\* An item polled with the cache empty is stored as well as returned.
poll_next_caches(self) ==
    IF is_some(self.peeked)
    THEN [self |-> [self EXCEPT !.peeked = NoneOpt],
          ret  |-> Ready(Some(unwrap(self.peeked)))]
    ELSE LET r == Fuse_poll_next(self.stream) IN
         [self |-> [stream |-> r.self,
                    peeked |-> IF r.ret = Pending THEN NoneOpt ELSE r.ret[2]],
          ret  |-> r.ret]

\* The wrapped stream is polled directly, not through Fuse.
poll_next_bypasses_fuse(self) ==
    IF is_some(self.peeked)
    THEN [self |-> [self EXCEPT !.peeked = NoneOpt],
          ret  |-> Ready(Some(unwrap(self.peeked)))]
    ELSE LET r == St_poll_next(self.stream.stream) IN
         [self |-> [self EXCEPT !.stream.stream = r.self], ret |-> r.ret]

\* A not-ready result is answered by polling once more.
poll_next_retries_pending(self) ==
    IF is_some(self.peeked)
    THEN [self |-> [self EXCEPT !.peeked = NoneOpt],
          ret  |-> Ready(Some(unwrap(self.peeked)))]
    ELSE LET r1 == Fuse_poll_next(self.stream)
             r  == IF r1.ret = Pending THEN Fuse_poll_next(r1.self) ELSE r1 IN
         [self |-> [self EXCEPT !.stream = r.self], ret |-> r.ret]

\* impl Stream for Peekable: poll_next
poll_next(self) ==
    IF is_some(self.peeked)
    THEN [self |-> [self EXCEPT !.peeked = NoneOpt],
          ret  |-> Ready(Some(unwrap(self.peeked)))]
    ELSE LET r == Fuse_poll_next(self.stream) IN
         [self |-> [self EXCEPT !.stream = r.self], ret |-> r.ret]

\* ------------------------------------------------------- FuturesOrdered
\* The values the tests send on their oneshot channels (works_1, works_2)
\* and the values of the ready futures of from_iterator.
FoVals    == {33, 99}
ReadyVals == {1, 2, 3}

\* Result::Ok, the output of a oneshot receiver that was sent a value
Ok(v) == <<"Ok", v>>

\* The futures the tests submit: the receiver of oneshot channel c, the
\* joined receivers of channels b and c mapped to the sum of their values,
\* and future::ready(v).
RxFut(c)      == <<"rx", c>>
JoinFut(b, c) == <<"join", b, c>>
ReadyFut(v)   == <<"ready", v>>

\* Future::poll of such a future when the channels are in state ch, an
\* Option of the value sent per channel
Future_poll(f, ch) ==
    IF f[1] = "ready" THEN Ready(f[2])
    ELSE IF f[1] = "rx"
    THEN IF is_some(ch[f[2]]) THEN Ready(Ok(unwrap(ch[f[2]]))) ELSE Pending
    ELSE IF is_some(ch[f[2]]) /\ is_some(ch[f[3]])
         THEN Ready(Ok(unwrap(ch[f[2]]) + unwrap(ch[f[3]])))
         ELSE Pending

FuturesOrdered_new ==
    [in_progress |-> {}, queued_results |-> {},
     next_incoming_index |-> 0, next_outgoing_index |-> 0]

\* push: wrap the future with the next incoming index
FuturesOrdered_push(fo, fut) ==
    [fo EXCEPT !.in_progress = @ \cup {[item |-> fut, index |-> fo.next_incoming_index]},
               !.next_incoming_index = @ + 1]

FuturesOrdered_len(fo) ==
    Cardinality(fo.in_progress) + Cardinality(fo.queued_results)

\* the queued result with the least index (the top of the heap)
HeapTop(q) == CHOOSE w \in q : \A x \in q : w.index <= x.index

\* in_progress drained of the futures that have completed; ch[c] is the
\* state of oneshot channel c, an Option of the value sent
Completed(fo, ch) == {w \in fo.in_progress : Future_poll(w.item, ch) # Pending}
Drain(fo, ch) ==
    [fo EXCEPT !.in_progress = @ \ Completed(fo, ch),
               !.queued_results = @ \cup
                   {[item |-> Future_poll(w.item, ch)[2], index |-> w.index] :
                        w \in Completed(fo, ch)}]

\* Variant of poll_next with one slip: the top of the heap is handed out
\* without comparing its index with next_outgoing_index.
FuturesOrdered_poll_next_unordered(fo, ch) ==
    LET d == Drain(fo, ch) IN
    IF d.queued_results # {}
    THEN [self |-> [d EXCEPT !.queued_results = @ \ {HeapTop(d.queued_results)},
                             !.next_outgoing_index = @ + 1],
          ret  |-> Ready(Some(HeapTop(d.queued_results).item))]
    ELSE IF d.in_progress = {}
    THEN [self |-> d, ret |-> Ready(NoneOpt)]
    ELSE [self |-> d, ret |-> Pending]

\* Variant of poll_next with one slip: end is reported whenever no result
\* is queued, also while futures are still in progress.
FuturesOrdered_poll_next_early_end(fo, ch) ==
    LET d == Drain(fo, ch) IN
    IF d.queued_results # {}
       /\ HeapTop(d.queued_results).index = d.next_outgoing_index
    THEN [self |-> [d EXCEPT !.queued_results = @ \ {HeapTop(d.queued_results)},
                             !.next_outgoing_index = @ + 1],
          ret  |-> Ready(Some(HeapTop(d.queued_results).item))]
    ELSE IF d.queued_results = {}
    THEN [self |-> d, ret |-> Ready(NoneOpt)]
    ELSE [self |-> d, ret |-> Pending]

FuturesOrdered_poll_next(fo, ch) ==
    LET d == Drain(fo, ch) IN
    IF d.queued_results # {}
       /\ HeapTop(d.queued_results).index = d.next_outgoing_index
    THEN [self |-> [d EXCEPT !.queued_results = @ \ {HeapTop(d.queued_results)},
                             !.next_outgoing_index = @ + 1],
          ret  |-> Ready(Some(HeapTop(d.queued_results).item))]
    ELSE IF d.in_progress = {}
    THEN [self |-> d, ret |-> Ready(NoneOpt)]
    ELSE [self |-> d, ret |-> Pending]

\* ---------------------------------------------------------------- state
VARIABLES
    inner,    \* Peekable.stream.stream : the wrapped stream St
    done,     \* Peekable.stream.done   : Fuse's flag
    peeked,   \* Peekable.peeked        : Option<St::Item>
    calls,    \* the consumer's calls so far, each with its result
    fo,       \* the FuturesOrdered stream of the tests
    chans,    \* the oneshot channels, in the order their receivers were pushed
    futs,     \* the futures submitted to fo, in submission order
    fo_calls  \* the polls of fo so far, each with its result

pvars == <<inner, done, peeked, calls>>
fvars == <<fo, chans, futs, fo_calls>>
vars  == <<inner, done, peeked, calls, fo, chans, futs, fo_calls>>

Self == [stream |-> [stream |-> inner, done |-> done], peeked |-> peeked]

Call(op, r) ==
    [op |-> op, ret |-> r.ret, pre |-> Self, post |-> r.self]

Store(op, r) ==
    /\ inner'  = r.self.stream.stream
    /\ done'   = r.self.stream.done
    /\ peeked' = r.self.peeked
    /\ calls'  = Append(calls, Call(op, r))

PeekableInit(scripts) ==
    \E s \in scripts :
        LET p == new([script |-> s, polls |-> 0]) IN
        /\ inner  = p.stream.stream
        /\ done   = p.stream.done
        /\ peeked = p.peeked
        /\ calls  = <<>>

FoInit ==
    /\ fo = FuturesOrdered_new
    /\ chans = <<>>
    /\ futs = <<>>
    /\ fo_calls = <<>>

Init == PeekableInit(Scripts) /\ FoInit

\* the tests of FuturesOrdered start with no Peekable in play
InitFO == PeekableInit({<<>>}) /\ FoInit

Peek ==
    /\ Len(calls) < MaxCalls
    /\ Store("peek", peek(Self))
    /\ UNCHANGED fvars

PollNext ==
    /\ Len(calls) < MaxCalls
    /\ Store("poll_next", poll_next(Self))
    /\ UNCHANGED fvars

Next == Peek \/ PollNext

Spec == Init /\ [][Next]_vars

\* A consumer that never stops calling.  The history keeps the calls that
\* changed the adapter and the first end poll_next returned; a call that
\* changes nothing and returns what an earlier call returned is not added.
LiveStore(op, r) ==
    /\ inner'  = r.self.stream.stream
    /\ done'   = r.self.stream.done
    /\ peeked' = r.self.peeked
    /\ calls'  = IF \/ r.self # Self
                    \/ /\ op = "poll_next"
                       /\ r.ret = Ready(NoneOpt)
                       /\ \A i \in DOMAIN calls :
                            ~(calls[i].op = "poll_next" /\ calls[i].ret = Ready(NoneOpt))
                 THEN Append(calls, Call(op, r))
                 ELSE calls

LivePeek ==
    /\ LiveStore("peek", peek(Self))
    /\ UNCHANGED fvars

LivePollNext ==
    /\ LiveStore("poll_next", poll_next(Self))
    /\ UNCHANGED fvars

LiveNext == LivePeek \/ LivePollNext

\* the consumer calls poll_next again and again, with peeks in between
SpecLive == Init /\ [][LiveNext]_vars /\ WF_vars(LivePollNext)

\* The tests of FuturesOrdered: receivers of fresh oneshot channels are
\* pushed, senders send in any order, the stream is polled.
\* A FuturesOrdered holds futures of one output type: Result<i32, Canceled>
\* for receivers and joined receivers, i32 for future::ready.
OutputIsResult(f) == f[1] # "ready"

FoPush ==
    /\ Len(futs) < MaxFutures
    /\ \A k \in DOMAIN futs : OutputIsResult(futs[k])
    /\ Len(chans) < MaxChans
    /\ chans' = Append(chans, NoneOpt)
    /\ futs' = Append(futs, RxFut(Len(chans) + 1))
    /\ fo' = FuturesOrdered_push(fo, RxFut(Len(chans) + 1))
    /\ UNCHANGED <<fo_calls, pvars>>

\* works_2: b_rx.join(c_rx).map(|(a, b)| Ok(a? + b?)) on two fresh channels
FoPushJoin ==
    /\ Len(futs) < MaxFutures
    /\ \A k \in DOMAIN futs : OutputIsResult(futs[k])
    /\ Len(chans) + 1 < MaxChans
    /\ chans' = chans \o <<NoneOpt, NoneOpt>>
    /\ futs' = Append(futs, JoinFut(Len(chans) + 1, Len(chans) + 2))
    /\ fo' = FuturesOrdered_push(fo, JoinFut(Len(chans) + 1, Len(chans) + 2))
    /\ UNCHANGED <<fo_calls, pvars>>

\* from_iterator: future::ready(v), a future that is complete when pushed
FoPushReady ==
    /\ Len(futs) < MaxFutures
    /\ \A k \in DOMAIN futs : ~OutputIsResult(futs[k])
    /\ \E v \in ReadyVals :
          /\ futs' = Append(futs, ReadyFut(v))
          /\ fo' = FuturesOrdered_push(fo, ReadyFut(v))
    /\ UNCHANGED <<chans, fo_calls, pvars>>

FoSend ==
    /\ \E c \in DOMAIN chans : \E v \in FoVals :
          /\ chans[c] = NoneOpt
          /\ chans' = [chans EXCEPT ![c] = Some(v)]
    /\ UNCHANGED <<fo, futs, fo_calls, pvars>>

FoPollNext ==
    /\ Len(fo_calls) < MaxFoPolls
    /\ LET r == FuturesOrdered_poll_next(fo, chans) IN
          /\ fo' = r.self
          /\ fo_calls' = Append(fo_calls,
                                 [ret |-> r.ret, chans |-> chans, futs |-> futs])
    /\ UNCHANGED <<chans, futs, pvars>>

FoNext == FoPush \/ FoPushJoin \/ FoPushReady \/ FoSend \/ FoPollNext

SpecFO == InitFO /\ [][FoNext]_vars

\* ------------------------------------------------- reading the call log
Idx == DOMAIN calls

IsPeek(i)     == calls[i].op = "peek"
IsPollNext(i) == calls[i].op = "poll_next"
IsEnd(i)      == calls[i].ret = Ready(NoneOpt)
IsItem(i)     == calls[i].ret # Pending /\ calls[i].ret # Ready(NoneOpt)

\* polls of the wrapped stream made during call i, during calls i..j
PollsBefore(i) == calls[i].pre.stream.stream.polls
PollsAfter(i)  == calls[i].post.stream.stream.polls
PollsIn(i)     == PollsAfter(i) - PollsBefore(i)

OnlyPeeks(i, j) == \A k \in i..j : IsPeek(k)

RECURSIVE ItemsOf(_)
\* the items among a sequence of poll results, in order
ItemsOf(rs) ==
    IF rs = <<>> THEN <<>>
    ELSE LET h == Head(rs) IN
         (IF h # Pending /\ h # Ready(NoneOpt) THEN <<unwrap(h[2])>> ELSE <<>>)
         \o ItemsOf(Tail(rs))

RECURSIVE UntilEnd(_)
\* a script cut before its first end
UntilEnd(rs) ==
    IF rs = <<>> \/ Head(rs) = Ready(NoneOpt) THEN <<>>
    ELSE <<Head(rs)>> \o UntilEnd(Tail(rs))

\* the items the wrapped stream produces before it ends
StreamItems == ItemsOf(UntilEnd(inner.script))

RECURSIVE ProducedUpTo(_)
ProducedUpTo(n) ==
    IF n = 0 THEN <<>>
    ELSE ProducedUpTo(n - 1) \o
         (IF IsPollNext(n) /\ IsItem(n) THEN <<unwrap(calls[n].ret[2])>> ELSE <<>>)

\* the items poll_next has returned so far
Produced == ProducedUpTo(Len(calls))

\* the items the wrapped stream has handed out in the polls made so far
Pulled ==
    LET n == IF inner.polls < Len(inner.script) THEN inner.polls
             ELSE Len(inner.script)
    IN ItemsOf(SubSeq(inner.script, 1, n))

Cached == IF is_some(peeked) THEN <<unwrap(peeked)>> ELSE <<>>

Exhausted == \E i \in Idx : IsPollNext(i) /\ IsEnd(i)

TypeOK ==
    /\ inner.script \in Scripts
    /\ inner.polls \in 0..MaxCalls
    /\ done \in BOOLEAN
    /\ peeked \in {NoneOpt} \cup {Some(v) : v \in Items}
    /\ Len(calls) <= MaxCalls

\* ------------------------------------------------------------------ C1
\* C1 (order preservation): when the wrapped stream produces three items
\* a, b, c before its end, with any not-ready results in between, and
\* poll_next has returned end, then the items poll_next returned are
\* exactly a, b, c in that order, however many peek calls were interleaved.
C1_OrderPreserved ==
    (Len(StreamItems) = 3 /\ Exhausted) => Produced = StreamItems

C1_Witness ==
    /\ inner.script = <<Pending, Ready(Some(1)), Ready(Some(2)), Ready(Some(3))>>
    /\ Exhausted
    /\ \E i \in Idx : IsPeek(i) /\ calls[i].ret = Pending
    /\ \E i \in Idx : IsPeek(i) /\ IsItem(i)
    /\ Produced = <<1, 2, 3>>

\* ------------------------------------------------------------------ C2
\* C2 (idempotent peek): in a run of consecutive peek calls i..j whose
\* first call returned Some(x), every call of the run returns the same
\* reference to the same cached x, and the wrapped stream is polled at
\* most once over the whole run.
C2_IdempotentPeek ==
    \A i \in Idx : \A j \in Idx :
        (i <= j /\ OnlyPeeks(i, j) /\ IsItem(i)) =>
            /\ \A k \in i..j :
                  /\ calls[k].ret = calls[i].ret
                  /\ calls[k].post.peeked = calls[i].post.peeked
            /\ PollsAfter(j) - PollsBefore(i) <= 1

C2_Witness ==
    \E i \in Idx : \E j \in Idx :
        /\ j >= i + 2
        /\ OnlyPeeks(i, j)
        /\ calls[i].ret = Ready(Some(Ref(2)))
        /\ PollsIn(i) = 1
        /\ calls[j].ret = Ready(Some(Ref(2)))
        /\ inner.polls < Len(inner.script)
        /\ inner.script[inner.polls + 1] = Ready(Some(1))

\* ------------------------------------------------------------------ C3
\* C3 (drain before re-poll): after a peek that returned Some(x), the next
\* poll_next, whatever number of peeks comes in between, returns
\* Ready(Some(x)), leaves the cache empty and does not poll the wrapped
\* stream.
C3_DrainBeforeRepoll ==
    \A i \in Idx : \A j \in Idx :
        (i < j /\ IsPeek(i) /\ IsItem(i) /\ IsPollNext(j)
               /\ OnlyPeeks(i + 1, j - 1)) =>
            /\ calls[j].ret = Ready(Some(calls[i].ret[2][2].val))
            /\ calls[j].post.peeked = NoneOpt
            /\ PollsIn(j) = 0
            /\ calls[j].post.stream = calls[j].pre.stream

C3_Witness ==
    \E i \in Idx : \E j \in Idx :
        /\ j = i + 2
        /\ IsPeek(i) /\ IsItem(i) /\ IsPeek(i + 1) /\ IsPollNext(j)
        /\ calls[j].ret = Ready(Some(3))
        /\ PollsBefore(j) < Len(inner.script)
        /\ inner.script[PollsBefore(j) + 1] = Ready(Some(1))

\* ------------------------------------------------------------------ C4
\* C4 (end absorption): once a call to peek or poll_next has returned end,
\* every later call to either returns end, also when the wrapped stream
\* would produce something if it were polled again.
C4_EndAbsorbing ==
    \A i \in Idx : \A j \in Idx :
        (i < j /\ IsEnd(i)) => IsEnd(j)

C4_Witness ==
    /\ Len(inner.script) >= 2
    /\ inner.script[1] = Ready(NoneOpt)
    /\ inner.script[2] = Ready(Some(1))
    /\ \E i \in Idx : \E j \in Idx : \E k \in Idx :
          /\ i < j /\ i < k
          /\ IsEnd(i)
          /\ IsPeek(j) /\ IsEnd(j)
          /\ IsPollNext(k) /\ IsEnd(k)

\* ------------------------------------------------------------------ C5
\* C5 (pass-through when empty): a poll_next that starts with the cache
\* empty returns exactly what one poll of the fused stream returns at that
\* moment, not-ready, item or end, and leaves the cache empty.
C5_PassThrough ==
    \A i \in Idx :
        (IsPollNext(i) /\ calls[i].pre.peeked = NoneOpt) =>
            /\ calls[i].ret = Fuse_poll_next(calls[i].pre.stream).ret
            /\ calls[i].post.stream = Fuse_poll_next(calls[i].pre.stream).self
            /\ calls[i].post.peeked = NoneOpt

C5_Witness ==
    \E i \in Idx : \E j \in Idx : \E k \in Idx :
        /\ IsPollNext(i) /\ calls[i].pre.peeked = NoneOpt
        /\ calls[i].ret = Pending
        /\ IsPollNext(j) /\ calls[j].pre.peeked = NoneOpt
        /\ calls[j].ret = Ready(Some(2))
        /\ IsPollNext(k) /\ calls[k].pre.peeked = NoneOpt
        /\ calls[k].ret = Ready(NoneOpt)

\* ------------------------------------------------------------------ C6
\* C6 (exactly once, one item of lookahead): the items poll_next has
\* returned, followed by the cached item when there is one, are exactly
\* the items pulled from the wrapped stream so far.
C6_ExactlyOnce ==
    Produced \o Cached = Pulled

C6_Witness ==
    /\ Produced = <<1, 2>>
    /\ peeked = Some(3)
    /\ Pulled = <<1, 2, 3>>
    /\ \E i \in Idx : calls[i].ret = Pending

\* ------------------------------------------------------------------ C7
Scenario_script ==
    <<Pending, Ready(Some(1)), Ready(Some(2)), Ready(NoneOpt)>>
Scenario_ops ==
    <<"peek", "peek", "poll_next", "peek", "poll_next", "poll_next", "poll_next">>
Scenario_rets ==
    <<Pending, Ready(Some(Ref(1))), Ready(Some(1)), Ready(Some(Ref(2))),
      Ready(Some(2)), Ready(NoneOpt), Ready(NoneOpt)>>

InScenario ==
    /\ inner.script = Scenario_script
    /\ Len(calls) <= Len(Scenario_ops)
    /\ \A i \in Idx : calls[i].op = Scenario_ops[i]

\* C7 (scenario): on the stream not-ready, 1, 2, end the calls peek, peek,
\* poll_next, peek, poll_next, poll_next, poll_next return NotReady,
\* Some(&1), Some(1), Some(&2), Some(2), None, None, and the cache is
\* empty after the first poll_next.
C7_Scenario ==
    InScenario =>
        /\ \A i \in Idx : calls[i].ret = Scenario_rets[i]
        /\ Len(calls) >= 3 => calls[3].post.peeked = NoneOpt

C7_Witness ==
    InScenario /\ Len(calls) = Len(Scenario_ops)

\* ------------------------------------------------------------------ C8
RECURSIVE DirectPolls(_, _)
\* the results of n successive polls of a fused stream f
DirectPolls(f, n) ==
    IF n = 0 THEN <<>>
    ELSE LET r == Fuse_poll_next(f) IN <<r.ret>> \o DirectPolls(r.self, n - 1)

NeverPeeked == \A i \in Idx : IsPollNext(i)

\* C8 (transparent composition): for a consumer that only calls poll_next
\* the cache is always empty and the results are, call for call, those of
\* polling the fused wrapped stream directly.
C8_Transparent ==
    NeverPeeked =>
        /\ peeked = NoneOpt
        /\ \A i \in Idx : calls[i].pre.peeked = NoneOpt
        /\ [i \in Idx |-> calls[i].ret]
             = DirectPolls(fuse([script |-> inner.script, polls |-> 0]), Len(calls))

C8_Witness ==
    /\ NeverPeeked
    /\ Len(calls) = 5
    /\ inner.script = <<Pending, Ready(Some(2)), Ready(NoneOpt), Ready(Some(1))>>

\* ----------------------------------------------------------------- C10
FoIdx == DOMAIN fo_calls

RECURSIVE YieldedUpTo(_)
\* the outputs the first n polls of fo returned
YieldedUpTo(n) ==
    IF n = 0 THEN <<>>
    ELSE YieldedUpTo(n - 1) \o
         (IF fo_calls[n].ret # Pending /\ fo_calls[n].ret # Ready(NoneOpt)
          THEN <<unwrap(fo_calls[n].ret[2])>> ELSE <<>>)

Yielded == YieldedUpTo(Len(fo_calls))

\* C10 (FuturesOrdered order): the k-th output yielded is the output of the
\* k-th submitted future, whatever the order of completion, so each output
\* is yielded once; a poll reports end exactly when every future submitted
\* so far has been yielded; len is the number of futures not yet yielded,
\* hence k for a stream collected from k futures and not yet polled.
C10_SubmissionOrder ==
    /\ Len(Yielded) <= Len(futs)
    /\ \A k \in DOMAIN Yielded : Future_poll(futs[k], chans) = Ready(Yielded[k])
    /\ \A i \in FoIdx :
          (fo_calls[i].ret = Ready(NoneOpt))
              <=> (Len(YieldedUpTo(i - 1)) = Len(fo_calls[i].futs))
    /\ FuturesOrdered_len(fo) = Len(futs) - Len(Yielded)

\* works_1: b completes first and the poll is pending; then a and c
\* complete and the outputs come as a, b, c, then end.
C10_Witness ==
    /\ futs = <<RxFut(1), RxFut(2), RxFut(3)>>
    /\ chans = <<Some(33), Some(99), Some(33)>>
    /\ Len(fo_calls) = 5
    /\ fo_calls[1].chans = <<NoneOpt, Some(99), NoneOpt>>
    /\ [i \in FoIdx |-> fo_calls[i].ret]
         = <<Pending, Ready(Some(Ok(33))), Ready(Some(Ok(99))),
             Ready(Some(Ok(33))), Ready(NoneOpt)>>

\* from_iterator: three ready futures collected give len 3 and 1, 2, 3.
FromIterator_Reached ==
    /\ futs = <<ReadyFut(1), ReadyFut(2), ReadyFut(3)>>
    /\ [i \in FoIdx |-> fo_calls[i].ret]
         = <<Ready(Some(1)), Ready(Some(2)), Ready(Some(3)), Ready(NoneOpt)>>

\* ----------------------------------------------------------------- C11
\* the futures submitted and the channels when poll i was made, and how
\* many of the futures had been yielded before it
ChansAt(i)       == fo_calls[i].chans
FutsAt(i)        == fo_calls[i].futs
YieldedBefore(i) == Len(YieldedUpTo(i - 1))

\* C11 (head-of-line blocking): a poll of a FuturesOrdered that still has
\* futures to yield is pending exactly when the earliest submitted future
\* not yet yielded is incomplete, whatever later futures have completed,
\* and otherwise is ready with that earliest future's output.
C11_HeadOfLine ==
    \A i \in FoIdx :
        YieldedBefore(i) < Len(FutsAt(i)) =>
            LET head == Future_poll(FutsAt(i)[YieldedBefore(i) + 1], ChansAt(i)) IN
            /\ (fo_calls[i].ret = Pending) <=> (head = Pending)
            /\ head # Pending => fo_calls[i].ret = Ready(Some(head[2]))

\* works_2: the first future has completed and the joined future has one
\* of its two values: ready, then pending; ready again once it has both.
C11_Witness ==
    /\ futs = <<RxFut(1), JoinFut(2, 3)>>
    /\ Len(fo_calls) = 3
    /\ ChansAt(1) = <<Some(33), Some(33), NoneOpt>>
    /\ ChansAt(2) = <<Some(33), Some(33), NoneOpt>>
    /\ ChansAt(3) = <<Some(33), Some(33), Some(33)>>
    /\ [i \in FoIdx |-> fo_calls[i].ret]
         = <<Ready(Some(Ok(33))), Pending, Ready(Some(Ok(66)))>>

\* works_1: a poll is pending although a later future has completed.
HeadBlocked_Reached ==
    \E i \in FoIdx :
        /\ fo_calls[i].ret = Pending
        /\ FutsAt(i) = <<RxFut(1), RxFut(2), RxFut(3)>>
        /\ ChansAt(i) = <<NoneOpt, Some(99), NoneOpt>>

\* ----------------------------------------------------------------- C12
\* C12 (frame of a call on a filled cache): a peek that starts with the
\* cache filled returns the reference to the cached item and leaves the
\* cache, the fused stream and its ended flag as they were; no call that
\* starts with the cache filled polls the wrapped stream.
C12_FilledFrame ==
    \A i \in Idx :
        is_some(calls[i].pre.peeked) =>
            /\ PollsIn(i) = 0
            /\ calls[i].post.stream = calls[i].pre.stream
            /\ IsPeek(i) =>
                  /\ calls[i].ret = Ready(Some(Ref(unwrap(calls[i].pre.peeked))))
                  /\ calls[i].post = calls[i].pre

C12_Witness ==
    \E i \in Idx : \E j \in Idx :
        /\ IsPeek(i) /\ calls[i].pre.peeked = Some(2)
        /\ IsPollNext(j) /\ calls[j].pre.peeked = Some(1)
        /\ PollsBefore(i) < Len(inner.script)
        /\ inner.script[PollsBefore(i) + 1] = Ready(Some(3))

\* ----------------------------------------------------------------- C13
\* C13 (one poll per call): every call to peek and every call to
\* poll_next polls the wrapped stream at most once.
C13_AtMostOnePoll ==
    \A i \in Idx : PollsIn(i) \in {0, 1}

C13_Witness ==
    \E i \in Idx : \E j \in Idx : \E k \in Idx :
        /\ IsPeek(i) /\ PollsIn(i) = 1 /\ calls[i].ret = Pending
        /\ IsPollNext(j) /\ PollsIn(j) = 1 /\ calls[j].ret = Pending
        /\ PollsIn(k) = 0

\* ----------------------------------------------------------------- C14
\* what the n+1-th poll of the wrapped stream returns
UnderlyingAt(n) ==
    IF n < Len(inner.script) THEN inner.script[n + 1] ELSE Ready(NoneOpt)

\* C14 (not-ready forwarded): a call returns not-ready exactly when it
\* started with the cache empty and its poll of the wrapped stream returned
\* not-ready; the cache is then still empty and that poll was the only one.
C14_PendingForwarded ==
    \A i \in Idx :
        /\ (calls[i].ret = Pending)
              <=> /\ calls[i].pre.peeked = NoneOpt
                  /\ PollsIn(i) >= 1
                  /\ UnderlyingAt(PollsBefore(i)) = Pending
        /\ calls[i].ret = Pending =>
              /\ calls[i].post.peeked = NoneOpt
              /\ PollsIn(i) = 1

C14_Witness ==
    \E i \in Idx : \E j \in Idx :
        /\ i + 1 < j
        /\ IsPeek(i) /\ calls[i].ret = Pending
        /\ IsPollNext(i + 1) /\ calls[i + 1].ret = Pending
        /\ IsItem(j)

\* ----------------------------------------------------------------- C15
Filled(o) == is_some(o)
Empty(o)  == o = NoneOpt

\* the call that made the last step
LastCall == calls'[Len(calls')]

CacheStep ==
    /\ (Empty(peeked) /\ Filled(peeked')) =>
          /\ LastCall.op = "peek"
          /\ LastCall.post.stream.stream.polls = inner.polls + 1
          /\ Ready(peeked') = UnderlyingAt(inner.polls)
    /\ (Filled(peeked) /\ Empty(peeked')) => LastCall.op = "poll_next"
    /\ (Filled(peeked) /\ Filled(peeked')) => peeked' = peeked
    /\ (LastCall.op = "peek" /\ LastCall.ret = Ready(NoneOpt)) => Empty(peeked')
    /\ LastCall.op = "poll_next" => Empty(peeked')
    /\ (LastCall.op = "peek" /\ Filled(peeked)) => Filled(peeked')

\* C15 (cache state machine): the cache starts empty; it is filled only by
\* a peek whose poll of the wrapped stream produced an item; it is emptied
\* only by poll_next; a peek that sees end leaves it empty; poll_next never
\* fills it and peek never empties it.
C15_CacheMachine ==
    Empty(peeked) /\ [][CacheStep]_vars

C15_Witness ==
    \E i \in Idx : \E j \in Idx : \E k \in Idx :
        /\ i < j /\ j < k
        /\ IsPeek(i) /\ Empty(calls[i].pre.peeked) /\ Filled(calls[i].post.peeked)
        /\ IsPollNext(j) /\ Filled(calls[j].pre.peeked) /\ Empty(calls[j].post.peeked)
        /\ IsPeek(k) /\ IsEnd(k) /\ Empty(calls[k].post.peeked)

\* ----------------------------------------------------------------- C16
RECURSIVE FirstEnd(_, _)
\* the number of the first poll of the wrapped stream that reports end
FirstEnd(rs, n) ==
    IF rs = <<>> \/ Head(rs) = Ready(NoneOpt) THEN n
    ELSE FirstEnd(Tail(rs), n + 1)

\* C16 (no poll after end): the wrapped stream is never polled again after
\* it has reported end; no call polls it once an earlier poll returned end.
C16_NoPollAfterEnd ==
    /\ inner.polls <= FirstEnd(inner.script, 1)
    /\ \A i \in Idx :
          (\E n \in 0..(PollsBefore(i) - 1) : UnderlyingAt(n) = Ready(NoneOpt))
              => PollsIn(i) = 0

C16_Witness ==
    /\ Len(inner.script) >= 2
    /\ inner.script[1] = Ready(Some(1))
    /\ inner.script[2] = Ready(NoneOpt)
    /\ inner.script[Len(inner.script)] = Ready(Some(2))
    /\ inner.polls = 2
    /\ \E i \in Idx : \E j \in Idx :
          /\ PollsBefore(i) = 2 /\ IsPeek(i)
          /\ PollsBefore(j) = 2 /\ IsPollNext(j)

\* ----------------------------------------------------------------- C17
\* C17 (ended and filled never together): whenever the fused stream has
\* reported end the cache is empty; nothing is cached when a call returns
\* end, nor after any later call.
C17_EndedMeansEmpty ==
    /\ done => Empty(peeked)
    /\ \A i \in Idx : \A j \in Idx :
          (i <= j /\ (IsEnd(i) \/ calls[i].post.stream.done))
              => Empty(calls[j].post.peeked)

C17_Witness ==
    /\ done
    /\ Produced = <<3>>
    /\ \E i \in Idx : \E j \in Idx :
          /\ i < j
          /\ IsPeek(i) /\ Filled(calls[i].post.peeked)
          /\ IsPeek(j) /\ IsEnd(j)
    /\ FirstEnd(inner.script, 1) < Len(inner.script)

\* ----------------------------------------------------------------- C18
\* C18 (progress): on a finite wrapped stream with finitely many not-ready
\* results, a consumer that keeps calling poll_next, with any peeks in
\* between, eventually has received every item of the stream, in order,
\* and end.
C18_Progress ==
    <>(Exhausted /\ Produced = StreamItems)

C18_Witness ==
    /\ inner.script = <<Pending, Ready(Some(1)), Pending, Ready(Some(2))>>
    /\ Exhausted
    /\ Produced = <<1, 2>>
    /\ \E i \in Idx : IsPeek(i) /\ calls[i].ret = Pending
    /\ \E i \in Idx : IsPeek(i) /\ IsItem(i)
====
